---- MODULE Spec2Model ----
(***************************************************************************)
(* Model of the fixed-size thread pool of web-server-rust (src/lib.rs):    *)
(* ThreadPool::new, ThreadPool::execute, the Worker thread loop and        *)
(* Drop for ThreadPool, over an unbounded mpsc channel whose Receiver is   *)
(* shared behind Arc<Mutex<..>>.                                           *)
(***************************************************************************)
EXTENDS Integers, Sequences, FiniteSets, TLC

\* Largest num_threads handed to ThreadPool::new (0 is included: it panics).
MaxThreads == 2
\* Number of calls of execute explored.
MaxJobs == 3
\* Number of calls of execute explored when progress is checked.
MaxLiveJobs == 2

Ids == 0 .. (MaxThreads - 1)
JobIds == 1 .. MaxJobs

VARIABLES
    pc,          \* life cycle of the pool as seen by its owner
    num_threads, \* argument of ThreadPool::new
    channel,     \* mpsc::channel() has been created
    sender,      \* ThreadPool.sender is Some (the Sender exists)
    arc,         \* strong count of Arc<Mutex<Receiver<Job>>>
    queue,       \* jobs in the channel, oldest first
    workers,     \* ThreadPool.workers: Vec<Worker>, records [id, handle]
    mutex,       \* the Mutex around the Receiver is locked
    poisoned,    \* the Mutex is poisoned
    guard,       \* guard[w]: thread w holds the MutexGuard
    wpc,         \* wpc[w]: position of thread w in the closure of Worker::new
    message,     \* message[w]: the local `message` of thread w
    joinIdx,     \* position of the `for worker in &mut self.workers` of drop
    joining,     \* drop is inside handle.join()
    joined,      \* ids whose join returned Ok
    attempts,    \* number of calls of execute so far
    execResult,  \* outcome of the latest call of execute
    rejected,    \* jobs whose execute call panicked
    submitted,   \* history: ids accepted by send, in order
    dequeued,    \* history: ids returned by recv, in order
    started,     \* history: ids in the order job() was invoked
    runs,        \* history: runs[j] = number of invocations of job j
    done,        \* history: ids whose job() returned
    queuedAtClose, \* history: ids in the channel when drop took the sender
    busyAtSubmit \* history: the latest execute found the sender, every worker in
                 \* job() and the channel non-empty

vars == << pc, num_threads, channel, sender, arc, queue, workers, mutex,
           poisoned, guard, wpc, message, joinIdx, joining, joined, attempts,
           execResult, rejected, submitted, dequeued, started, runs, done,
           queuedAtClose, busyAtSubmit >>

\* type Job = Box<dyn FnOnce() + Send + 'static>: an identity and whether the
\* closure panics when invoked.
Job == [id : JobIds, faults : BOOLEAN]

NoMsg == [tag |-> "none", id |-> 0, faults |-> FALSE]
ErrMsg == [tag |-> "err", id |-> 0, faults |-> FALSE]
OkMsg(job) == [tag |-> "ok", id |-> job.id, faults |-> job.faults]

\* Variant of Send: the job is put at the front of the channel.
SendFront(q, job) == << job >> \o q

\* Sender::send on an unbounded channel: the job goes to the back.
Send(q, job) == Append(q, job)

\* Dropping one clone of the Arc; the Receiver is dropped with the last one,
\* and the jobs still in the channel are dropped with it.
ArcAfterDrop(n) == IF n > 0 THEN n - 1 ELSE 0
QueueAfterArcDrop(n, q) == IF n <= 1 THEN << >> ELSE q

Terminated(w) == wpc[w] \in {"stopped", "panicked"}

\* Every worker of the pool is inside job() and a job is waiting.
AllBusy ==
    /\ workers # << >>
    /\ \A i \in 1 .. Len(workers) : wpc[workers[i].id] = "exec"
    /\ queue # << >>

Init ==
    /\ pc = "unborn"
    /\ num_threads = 0
    /\ channel = FALSE
    /\ sender = FALSE
    /\ arc = 0
    /\ queue = << >>
    /\ workers = << >>
    /\ mutex = FALSE
    /\ poisoned = FALSE
    /\ guard = [w \in Ids |-> FALSE]
    /\ wpc = [w \in Ids |-> "none"]
    /\ message = [w \in Ids |-> NoMsg]
    /\ joinIdx = 0
    /\ joining = FALSE
    /\ joined = {}
    /\ attempts = 0
    /\ execResult = "none"
    /\ rejected = {}
    /\ submitted = << >>
    /\ dequeued = << >>
    /\ started = << >>
    /\ runs = [j \in JobIds |-> 0]
    /\ done = {}
    /\ queuedAtClose = {}
    /\ busyAtSubmit = FALSE

\* Variant of New without the assert!: a pool of size 0 is constructed.
NewNoAssert(n) ==
    /\ pc = "unborn"
    /\ num_threads' = n
    /\ pc' = "constructing"
    /\ channel' = TRUE
    /\ sender' = TRUE
    /\ arc' = 1
    /\ UNCHANGED << queue, workers, mutex, poisoned, guard, wpc, message,
                    joinIdx, joining, joined, attempts, execResult, rejected,
                    submitted, dequeued, started, runs, done, queuedAtClose,
                    busyAtSubmit >>

\* ThreadPool::new up to the loop: assert!(num_threads > 0), mpsc::channel(),
\* Arc::new(Mutex::new(receiver)), Vec::with_capacity.
New(n) ==
    /\ pc = "unborn"
    /\ num_threads' = n
    /\ IF n > 0
         THEN /\ pc' = "constructing"
              /\ channel' = TRUE
              /\ sender' = TRUE
              /\ arc' = 1
         ELSE /\ pc' = "new_panicked"
              /\ UNCHANGED << channel, sender, arc >>
    /\ UNCHANGED << queue, workers, mutex, poisoned, guard, wpc, message,
                    joinIdx, joining, joined, attempts, execResult, rejected,
                    submitted, dequeued, started, runs, done >>
    /\ UNCHANGED << queuedAtClose, busyAtSubmit >>

\* One iteration of `for id in 0..num_threads`: Worker::new(id, Arc::clone)
\* spawns the thread and pushes Worker { id, handle: Some(handle) }.
Spawn ==
    /\ pc = "constructing"
    /\ Len(workers) < num_threads
    /\ LET id == Len(workers) IN
         /\ workers' = Append(workers, [id |-> id, handle |-> TRUE])
         /\ wpc' = [wpc EXCEPT ![id] = "lock"]
    /\ arc' = arc + 1
    /\ UNCHANGED << pc, num_threads, channel, sender, queue, mutex, poisoned,
                    guard, message, joinIdx, joining, joined, attempts,
                    execResult, rejected, submitted, dequeued, started, runs,
                    done >>
    /\ UNCHANGED << queuedAtClose, busyAtSubmit >>

\* Variant of NewReturn: the loop runs over 0..num_threads-1, so the pool is
\* returned one worker short.
NewReturnEarly ==
    /\ pc = "constructing"
    /\ Len(workers) = num_threads - 1
    /\ pc' = "alive"
    /\ arc' = ArcAfterDrop(arc)
    /\ queue' = QueueAfterArcDrop(arc, queue)
    /\ UNCHANGED << num_threads, channel, sender, workers, mutex, poisoned,
                    guard, wpc, message, joinIdx, joining, joined, attempts,
                    execResult, rejected, submitted, dequeued, started, runs,
                    done, queuedAtClose, busyAtSubmit >>

\* End of ThreadPool::new: ThreadPool { workers, sender: Some(sender) }; the
\* local `receiver` clone of the Arc goes out of scope.
NewReturn ==
    /\ pc = "constructing"
    /\ Len(workers) = num_threads
    /\ pc' = "alive"
    /\ arc' = ArcAfterDrop(arc)
    /\ queue' = QueueAfterArcDrop(arc, queue)
    /\ UNCHANGED << num_threads, channel, sender, workers, mutex, poisoned,
                    guard, wpc, message, joinIdx, joining, joined, attempts,
                    execResult, rejected, submitted, dequeued, started, runs,
                    done >>
    /\ UNCHANGED << queuedAtClose, busyAtSubmit >>

\* Variant of Execute: `if let Some(s) = &self.sender { let _ = s.send(job); }`,
\* which returns normally whether or not the job went into the channel.
ExecuteSilent(f) ==
    /\ pc \in {"alive", "dropping"}
    /\ attempts < MaxJobs
    /\ attempts' = attempts + 1
    /\ execResult' = "ok"
    /\ LET job == [id |-> attempts + 1, faults |-> f] IN
         IF sender /\ arc > 0
           THEN /\ queue' = Send(queue, job)
                /\ submitted' = Append(submitted, job.id)
           ELSE UNCHANGED << queue, submitted >>
    /\ busyAtSubmit' = (sender /\ AllBusy)
    /\ UNCHANGED << pc, num_threads, channel, sender, arc, workers, mutex,
                    poisoned, guard, wpc, message, joinIdx, joining, joined,
                    dequeued, started, runs, done, rejected, queuedAtClose >>

\* Variant of Execute over a rendezvous channel (mpsc::sync_channel(0)): send
\* blocks until a worker is waiting in recv.
ExecuteRendezvous(f) ==
    /\ pc \in {"alive", "dropping"}
    /\ attempts < MaxJobs
    /\ sender => (arc = 0 \/ \E w \in Ids : wpc[w] = "recv")
    /\ attempts' = attempts + 1
    /\ LET job == [id |-> attempts + 1, faults |-> f] IN
         IF ~sender
           THEN /\ execResult' = "no_sender"
                /\ rejected' = rejected \cup {job.id}
                /\ UNCHANGED << queue, submitted >>
           ELSE IF arc = 0
             THEN /\ execResult' = "send_failed"
                  /\ rejected' = rejected \cup {job.id}
                  /\ UNCHANGED << queue, submitted >>
             ELSE /\ execResult' = "ok"
                  /\ queue' = Send(queue, job)
                  /\ submitted' = Append(submitted, job.id)
                  /\ UNCHANGED rejected
    /\ busyAtSubmit' = (sender /\ AllBusy)
    /\ UNCHANGED << pc, num_threads, channel, sender, arc, workers, mutex,
                    poisoned, guard, wpc, message, joinIdx, joining, joined,
                    dequeued, started, runs, done, queuedAtClose >>

\* Variant of Execute that moves the sender out of the Option with take()
\* for the send, leaving None behind.
ExecuteTakesSender(f) ==
    /\ pc \in {"alive", "dropping"}
    /\ attempts < MaxJobs
    /\ attempts' = attempts + 1
    /\ LET job == [id |-> attempts + 1, faults |-> f] IN
         IF ~sender
           THEN /\ execResult' = "no_sender"
                /\ rejected' = rejected \cup {job.id}
                /\ UNCHANGED << queue, submitted, sender >>
           ELSE IF arc = 0
             THEN /\ execResult' = "send_failed"
                  /\ rejected' = rejected \cup {job.id}
                  /\ sender' = FALSE
                  /\ UNCHANGED << queue, submitted >>
             ELSE /\ execResult' = "ok"
                  /\ queue' = Send(queue, job)
                  /\ submitted' = Append(submitted, job.id)
                  /\ sender' = FALSE
                  /\ UNCHANGED rejected
    /\ busyAtSubmit' = (sender /\ AllBusy)
    /\ UNCHANGED << pc, num_threads, channel, arc, workers, mutex,
                    poisoned, guard, wpc, message, joinIdx, joining, joined,
                    dequeued, started, runs, done, queuedAtClose >>

\* ThreadPool::execute: self.sender.as_ref().unwrap().send(job).unwrap().
\* as_ref().unwrap() panics when the sender is None; send returns Err, and
\* the second unwrap panics, when the Receiver has been dropped.
Execute(f) ==
    /\ pc \in {"alive", "dropping"}
    /\ attempts < MaxJobs
    /\ attempts' = attempts + 1
    /\ LET job == [id |-> attempts + 1, faults |-> f] IN
         IF ~sender
           THEN /\ execResult' = "no_sender"
                /\ rejected' = rejected \cup {job.id}
                /\ UNCHANGED << queue, submitted >>
           ELSE IF arc = 0
             THEN /\ execResult' = "send_failed"
                  /\ rejected' = rejected \cup {job.id}
                  /\ UNCHANGED << queue, submitted >>
             ELSE /\ execResult' = "ok"
                  /\ queue' = Send(queue, job)
                  /\ submitted' = Append(submitted, job.id)
                  /\ UNCHANGED rejected
    /\ UNCHANGED << pc, num_threads, channel, sender, arc, workers, mutex,
                    poisoned, guard, wpc, message, joinIdx, joining, joined,
                    dequeued, started, runs, done >>
    /\ busyAtSubmit' = (sender /\ AllBusy)
    /\ UNCHANGED queuedAtClose

\* Variant of WorkerLock: the guard is handed out without waiting for the
\* mutex to be free.
WorkerLockNoWait(w) ==
    /\ wpc[w] = "lock"
    /\ mutex' = TRUE
    /\ guard' = [guard EXCEPT ![w] = TRUE]
    /\ wpc' = [wpc EXCEPT ![w] = "recv"]
    /\ UNCHANGED << pc, num_threads, channel, sender, arc, queue, workers,
                    poisoned, message, joinIdx, joining, joined, attempts,
                    execResult, rejected, submitted, dequeued, started, runs,
                    done, queuedAtClose, busyAtSubmit >>

\* receiver.lock().unwrap(): blocks while the mutex is locked; a poisoned
\* mutex makes lock() return Err and unwrap panic.
WorkerLock(w) ==
    /\ wpc[w] = "lock"
    /\ ~mutex
    /\ IF poisoned
         THEN /\ wpc' = [wpc EXCEPT ![w] = "panicked"]
              /\ arc' = ArcAfterDrop(arc)
              /\ queue' = QueueAfterArcDrop(arc, queue)
              /\ UNCHANGED << mutex, guard >>
         ELSE /\ mutex' = TRUE
              /\ guard' = [guard EXCEPT ![w] = TRUE]
              /\ wpc' = [wpc EXCEPT ![w] = "recv"]
              /\ UNCHANGED << arc, queue >>
    /\ UNCHANGED << pc, num_threads, channel, sender, workers, poisoned,
                    message, joinIdx, joining, joined, attempts, execResult,
                    rejected, submitted, dequeued, started, runs, done >>
    /\ UNCHANGED << queuedAtClose, busyAtSubmit >>

\* Variant of WorkerRecv: recv reports Err as soon as the Sender is gone,
\* without handing out the jobs still in the channel.
WorkerRecvDropsQueued(w) ==
    /\ wpc[w] = "recv"
    /\ \/ /\ queue # << >>
          /\ sender
          /\ message' = [message EXCEPT ![w] = OkMsg(Head(queue))]
          /\ queue' = Tail(queue)
          /\ dequeued' = Append(dequeued, Head(queue).id)
       \/ /\ ~sender
          /\ message' = [message EXCEPT ![w] = ErrMsg]
          /\ UNCHANGED << queue, dequeued >>
    /\ guard' = [guard EXCEPT ![w] = FALSE]
    /\ mutex' = FALSE
    /\ wpc' = [wpc EXCEPT ![w] = "match"]
    /\ UNCHANGED << pc, num_threads, channel, sender, arc, workers, poisoned,
                    joinIdx, joining, joined, attempts, execResult, rejected,
                    submitted, started, runs, done, queuedAtClose,
                    busyAtSubmit >>

\* Variant of WorkerRecv: the guard is bound to a local (`let rx =
\* receiver.lock().unwrap();`) and so is still held when job() runs.
WorkerRecvKeepsGuard(w) ==
    /\ wpc[w] = "recv"
    /\ \/ /\ queue # << >>
          /\ message' = [message EXCEPT ![w] = OkMsg(Head(queue))]
          /\ queue' = Tail(queue)
          /\ dequeued' = Append(dequeued, Head(queue).id)
       \/ /\ queue = << >>
          /\ ~sender
          /\ message' = [message EXCEPT ![w] = ErrMsg]
          /\ UNCHANGED << queue, dequeued >>
    /\ wpc' = [wpc EXCEPT ![w] = "match"]
    /\ UNCHANGED << pc, num_threads, channel, sender, arc, workers, poisoned,
                    joinIdx, joining, joined, attempts, execResult, rejected,
                    submitted, started, runs, done, queuedAtClose,
                    busyAtSubmit, guard, mutex >>

\* Variant of WorkerRecv with try_recv() in place of recv(): an empty channel
\* gives Err whether or not the Sender still exists.
WorkerRecvTry(w) ==
    /\ wpc[w] = "recv"
    /\ \/ /\ queue # << >>
          /\ message' = [message EXCEPT ![w] = OkMsg(Head(queue))]
          /\ queue' = Tail(queue)
          /\ dequeued' = Append(dequeued, Head(queue).id)
       \/ /\ queue = << >>
          /\ message' = [message EXCEPT ![w] = ErrMsg]
          /\ UNCHANGED << queue, dequeued >>
    /\ guard' = [guard EXCEPT ![w] = FALSE]
    /\ mutex' = FALSE
    /\ wpc' = [wpc EXCEPT ![w] = "match"]
    /\ UNCHANGED << pc, num_threads, channel, sender, arc, workers, poisoned,
                    joinIdx, joining, joined, attempts, execResult, rejected,
                    submitted, started, runs, done, queuedAtClose,
                    busyAtSubmit >>

\* Variant of WorkerRecv whose recv never reports the disconnection (a clone
\* of the Sender is kept alive somewhere): on an empty channel it blocks.
WorkerRecvNeverErr(w) ==
    /\ wpc[w] = "recv"
    /\ queue # << >>
    /\ message' = [message EXCEPT ![w] = OkMsg(Head(queue))]
    /\ queue' = Tail(queue)
    /\ dequeued' = Append(dequeued, Head(queue).id)
    /\ guard' = [guard EXCEPT ![w] = FALSE]
    /\ mutex' = FALSE
    /\ wpc' = [wpc EXCEPT ![w] = "match"]
    /\ UNCHANGED << pc, num_threads, channel, sender, arc, workers, poisoned,
                    joinIdx, joining, joined, attempts, execResult, rejected,
                    submitted, started, runs, done, queuedAtClose,
                    busyAtSubmit >>

\* .recv() under the guard, then the end of the `let message = ...;`
\* statement, where the temporary MutexGuard is dropped.  recv blocks while
\* the channel is empty and the Sender exists; it returns Err only when the
\* channel is empty and the Sender has been dropped.
WorkerRecv(w) ==
    /\ wpc[w] = "recv"
    /\ \/ /\ queue # << >>
          /\ message' = [message EXCEPT ![w] = OkMsg(Head(queue))]
          /\ queue' = Tail(queue)
          /\ dequeued' = Append(dequeued, Head(queue).id)
       \/ /\ queue = << >>
          /\ ~sender
          /\ message' = [message EXCEPT ![w] = ErrMsg]
          /\ UNCHANGED << queue, dequeued >>
    /\ guard' = [guard EXCEPT ![w] = FALSE]
    /\ mutex' = FALSE
    /\ wpc' = [wpc EXCEPT ![w] = "match"]
    /\ UNCHANGED << pc, num_threads, channel, sender, arc, workers, poisoned,
                    joinIdx, joining, joined, attempts, execResult, rejected,
                    submitted, started, runs, done >>
    /\ UNCHANGED << queuedAtClose, busyAtSubmit >>

\* Variant of WorkerMatch whose Ok arm only prints (`Ok(_job) => println!`):
\* the job is dropped without being invoked.
WorkerMatchSkipsJob(w) ==
    /\ wpc[w] = "match"
    /\ message' = [message EXCEPT ![w] = NoMsg]
    /\ IF message[w].tag = "ok"
         THEN /\ wpc' = [wpc EXCEPT ![w] = "lock"]
              /\ UNCHANGED << arc, queue >>
         ELSE /\ wpc' = [wpc EXCEPT ![w] = "stopped"]
              /\ arc' = ArcAfterDrop(arc)
              /\ queue' = QueueAfterArcDrop(arc, queue)
    /\ UNCHANGED << pc, num_threads, channel, sender, workers, mutex, poisoned,
                    guard, joinIdx, joining, joined, attempts, execResult,
                    rejected, submitted, dequeued, done, started, runs,
                    queuedAtClose, busyAtSubmit >>

\* match message: Ok(job) => println, job() is invoked; Err(_) => println,
\* break: the thread ends and its clone of the Arc is dropped.
WorkerMatch(w) ==
    /\ wpc[w] = "match"
    /\ IF message[w].tag = "ok"
         THEN /\ wpc' = [wpc EXCEPT ![w] = "exec"]
              /\ started' = Append(started, message[w].id)
              /\ runs' = [runs EXCEPT ![message[w].id] = @ + 1]
              /\ UNCHANGED << arc, queue, message >>
         ELSE /\ wpc' = [wpc EXCEPT ![w] = "stopped"]
              /\ message' = [message EXCEPT ![w] = NoMsg]
              /\ arc' = ArcAfterDrop(arc)
              /\ queue' = QueueAfterArcDrop(arc, queue)
              /\ UNCHANGED << started, runs >>
    /\ UNCHANGED << pc, num_threads, channel, sender, workers, mutex, poisoned,
                    guard, joinIdx, joining, joined, attempts, execResult,
                    rejected, submitted, dequeued, done >>
    /\ UNCHANGED << queuedAtClose, busyAtSubmit >>

\* Variant of WorkerFinish with the call wrapped in catch_unwind: a job that
\* panics sends the thread round the loop like one that returns.
WorkerFinishCatches(w) ==
    /\ wpc[w] = "exec"
    /\ message' = [message EXCEPT ![w] = NoMsg]
    /\ wpc' = [wpc EXCEPT ![w] = "lock"]
    /\ done' = IF message[w].faults THEN done ELSE done \cup {message[w].id}
    /\ UNCHANGED << pc, num_threads, channel, sender, workers, joinIdx,
                    joining, joined, attempts, execResult, rejected, submitted,
                    dequeued, started, runs, arc, queue, poisoned, mutex,
                    guard, queuedAtClose, busyAtSubmit >>

\* job() ends.  A job that returns sends the thread round the loop; a job
\* that panics unwinds the thread: its Arc clone is dropped, and a guard held
\* at that moment would be released with the mutex poisoned.
WorkerFinish(w) ==
    /\ wpc[w] = "exec"
    /\ message' = [message EXCEPT ![w] = NoMsg]
    /\ IF message[w].faults
         THEN /\ wpc' = [wpc EXCEPT ![w] = "panicked"]
              /\ arc' = ArcAfterDrop(arc)
              /\ queue' = QueueAfterArcDrop(arc, queue)
              /\ poisoned' = (poisoned \/ guard[w])
              /\ mutex' = IF guard[w] THEN FALSE ELSE mutex
              /\ guard' = [guard EXCEPT ![w] = FALSE]
              /\ UNCHANGED done
         ELSE /\ wpc' = [wpc EXCEPT ![w] = "lock"]
              /\ done' = done \cup {message[w].id}
              /\ UNCHANGED << arc, queue, poisoned, mutex, guard >>
    /\ UNCHANGED << pc, num_threads, channel, sender, workers, joinIdx,
                    joining, joined, attempts, execResult, rejected, submitted,
                    dequeued, started, runs >>
    /\ UNCHANGED << queuedAtClose, busyAtSubmit >>

\* Variant of DropBegin: the loop over the workers is entered without
\* dropping the sender first.
DropBeginKeepsSender ==
    /\ pc = "alive"
    /\ pc' = "dropping"
    /\ joinIdx' = 1
    /\ queuedAtClose' = {queue[i].id : i \in 1 .. Len(queue)}
    /\ UNCHANGED << num_threads, channel, sender, arc, queue, workers, mutex,
                    poisoned, guard, wpc, message, joining, joined, attempts,
                    execResult, rejected, submitted, dequeued, started, runs,
                    done, busyAtSubmit >>

\* drop: drop(self.sender.take()), before the loop over the workers.
DropBegin ==
    /\ pc = "alive"
    /\ pc' = "dropping"
    /\ sender' = FALSE
    /\ joinIdx' = 1
    /\ UNCHANGED << num_threads, channel, arc, queue, workers, mutex, poisoned,
                    guard, wpc, message, joining, joined, attempts, execResult,
                    rejected, submitted, dequeued, started, runs, done >>
    /\ queuedAtClose' = {queue[i].id : i \in 1 .. Len(queue)}
    /\ UNCHANGED busyAtSubmit

\* Variant of DropTake with as_ref() in place of take(): the handle stays in
\* the Worker while it is joined.
DropTakeKeepsHandle ==
    /\ pc = "dropping"
    /\ ~joining
    /\ joinIdx <= Len(workers)
    /\ joining' = TRUE
    /\ UNCHANGED << pc, num_threads, channel, sender, arc, queue, mutex,
                    poisoned, guard, wpc, message, joined, attempts,
                    execResult, rejected, submitted, dequeued, started, runs,
                    done, workers, joinIdx, queuedAtClose, busyAtSubmit >>

\* drop: println and `if let Some(handle) = worker.handle.take()` for the
\* next worker of the Vec.
DropTake ==
    /\ pc = "dropping"
    /\ ~joining
    /\ joinIdx <= Len(workers)
    /\ IF workers[joinIdx].handle
         THEN /\ workers' = [workers EXCEPT ![joinIdx].handle = FALSE]
              /\ joining' = TRUE
              /\ UNCHANGED joinIdx
         ELSE /\ joinIdx' = joinIdx + 1
              /\ UNCHANGED << workers, joining >>
    /\ UNCHANGED << pc, num_threads, channel, sender, arc, queue, mutex,
                    poisoned, guard, wpc, message, joined, attempts,
                    execResult, rejected, submitted, dequeued, started, runs,
                    done >>
    /\ UNCHANGED << queuedAtClose, busyAtSubmit >>

\* Variant of DropJoin: the handle is dropped instead of joined, which
\* detaches the thread and does not wait for it.
DropJoinNoWait ==
    /\ pc = "dropping"
    /\ joining
    /\ joining' = FALSE
    /\ joined' = joined \cup {workers[joinIdx].id}
    /\ joinIdx' = joinIdx + 1
    /\ UNCHANGED << pc, num_threads, channel, sender, arc, queue, workers,
                    mutex, poisoned, guard, wpc, message, attempts, execResult,
                    rejected, submitted, dequeued, started, runs, done,
                    queuedAtClose, busyAtSubmit >>

\* Variant of DropJoin with `let _ = handle.join();`: the Err of a thread
\* that panicked is ignored.
DropJoinIgnoresErr ==
    /\ pc = "dropping"
    /\ joining
    /\ Terminated(workers[joinIdx].id)
    /\ joining' = FALSE
    /\ joined' = joined \cup {workers[joinIdx].id}
    /\ joinIdx' = joinIdx + 1
    /\ UNCHANGED << pc, num_threads, channel, sender, arc, queue, workers,
                    mutex, poisoned, guard, wpc, message, attempts, execResult,
                    rejected, submitted, dequeued, started, runs, done,
                    queuedAtClose, busyAtSubmit >>

\* drop: handle.join().unwrap() blocks until the thread has ended; join gives
\* Err for a thread that panicked, and unwrap panics.
DropJoin ==
    /\ pc = "dropping"
    /\ joining
    /\ Terminated(workers[joinIdx].id)
    /\ joining' = FALSE
    /\ IF wpc[workers[joinIdx].id] = "stopped"
         THEN /\ joined' = joined \cup {workers[joinIdx].id}
              /\ joinIdx' = joinIdx + 1
              /\ UNCHANGED pc
         ELSE /\ pc' = "drop_panicked"
              /\ UNCHANGED << joined, joinIdx >>
    /\ UNCHANGED << num_threads, channel, sender, arc, queue, workers, mutex,
                    poisoned, guard, wpc, message, attempts, execResult,
                    rejected, submitted, dequeued, started, runs, done >>
    /\ UNCHANGED << queuedAtClose, busyAtSubmit >>

\* drop: the loop over the workers is over and drop returns.
DropReturn ==
    /\ pc = "dropping"
    /\ ~joining
    /\ joinIdx > Len(workers)
    /\ pc' = "dropped"
    /\ UNCHANGED << num_threads, channel, sender, arc, queue, workers, mutex,
                    poisoned, guard, wpc, message, joinIdx, joining, joined,
                    attempts, execResult, rejected, submitted, dequeued,
                    started, runs, done >>
    /\ UNCHANGED << queuedAtClose, busyAtSubmit >>

Next ==
    \/ \E n \in 0 .. MaxThreads : New(n)
    \/ Spawn
    \/ NewReturn
    \/ \E f \in BOOLEAN : Execute(f)
    \/ \E w \in Ids : WorkerLock(w)
    \/ \E w \in Ids : WorkerRecv(w)
    \/ \E w \in Ids : WorkerMatch(w)
    \/ \E w \in Ids : WorkerFinish(w)
    \/ DropBegin
    \/ DropTake
    \/ DropJoin
    \/ DropReturn

Spec == Init /\ [][Next]_vars

\* Scheduling: every thread that can take a step eventually takes one.  This
\* covers the worker threads and the thread inside new or drop; when new,
\* execute and drop are called is up to the owner of the pool.  std's Mutex
\* promises no fairness between waiters, hence weak fairness only.
Fairness ==
    /\ \A w \in Ids :
         /\ WF_vars(WorkerLock(w))
         /\ WF_vars(WorkerRecv(w))
         /\ WF_vars(WorkerMatch(w))
         /\ WF_vars(WorkerFinish(w))
    /\ WF_vars(Spawn)
    /\ WF_vars(NewReturn)
    /\ WF_vars(DropTake)
    /\ WF_vars(DropJoin)
    /\ WF_vars(DropReturn)

\* The behaviours checked for progress: as Next, with at most MaxLiveJobs
\* calls of execute.
LiveExecute(f) ==
    /\ attempts < MaxLiveJobs
    /\ Execute(f)

LiveNext ==
    \/ \E n \in 0 .. MaxThreads : New(n)
    \/ Spawn
    \/ NewReturn
    \/ \E f \in BOOLEAN : LiveExecute(f)
    \/ \E w \in Ids : WorkerLock(w)
    \/ \E w \in Ids : WorkerRecv(w)
    \/ \E w \in Ids : WorkerMatch(w)
    \/ \E w \in Ids : WorkerFinish(w)
    \/ DropBegin
    \/ DropTake
    \/ DropJoin
    \/ DropReturn

FairSpec == Init /\ [][LiveNext]_vars /\ Fairness

TypeOK ==
    /\ pc \in {"unborn", "constructing", "alive", "dropping", "dropped",
               "new_panicked", "drop_panicked"}
    /\ num_threads \in 0 .. MaxThreads
    /\ channel \in BOOLEAN /\ sender \in BOOLEAN /\ mutex \in BOOLEAN
    /\ poisoned \in BOOLEAN /\ joining \in BOOLEAN
    /\ arc \in 0 .. (MaxThreads + 1)
    /\ Len(queue) <= MaxJobs
    /\ Len(workers) <= MaxThreads
    /\ wpc \in [Ids -> {"none", "lock", "recv", "match", "exec", "stopped",
                        "panicked"}]
    /\ attempts \in 0 .. MaxJobs
    /\ execResult \in {"none", "ok", "no_sender", "send_failed"}

----------------------------------------------------------------------------
\* Properties of the pool.

IsPrefix(s, t) ==
    /\ Len(s) <= Len(t)
    /\ \A i \in 1 .. Len(s) : s[i] = t[i]

SubmittedIds == {submitted[i] : i \in 1 .. Len(submitted)}
QueuedIds == {queue[i].id : i \in 1 .. Len(queue)}
HeldIds == {message[w].id : w \in {v \in Ids : message[v].tag = "ok"}}
Spawned == {workers[i].id : i \in 1 .. Len(workers)}
Executing == {w \in Ids : wpc[w] = "exec"}
Holders == {w \in Ids : guard[w]}

\* C1: no job is ever invoked twice, and once drop has returned every job
\* accepted by execute has been invoked exactly once and has returned,
\* the jobs that were still in the channel when the sender was taken included.
C1_ExactlyOnce ==
    /\ \A j \in JobIds : runs[j] <= 1
    /\ \A j \in JobIds : runs[j] = 1 => j \in SubmittedIds
    /\ pc = "dropped" =>
         \A j \in SubmittedIds : runs[j] = 1 /\ j \in done

C1_Witness ==
    /\ pc = "dropped"
    /\ num_threads >= 2
    /\ Len(submitted) >= 3
    /\ queuedAtClose # {}

\* C2: when drop has returned, every worker thread has left its loop through
\* the Err arm and has been joined (its handle taken), no job is held or
\* running, and the channel is empty.
C2_DropReturnsQuiescent ==
    pc = "dropped" =>
      /\ Len(workers) = num_threads
      /\ \A i \in 1 .. Len(workers) :
           /\ wpc[workers[i].id] = "stopped"
           /\ ~workers[i].handle
           /\ workers[i].id \in joined
      /\ \A w \in Ids : wpc[w] \notin {"lock", "recv", "match", "exec"}
      /\ HeldIds = {}
      /\ queue = << >>
      /\ SubmittedIds \subseteq done

C2_Witness ==
    /\ pc = "dropped"
    /\ Len(workers) >= 2
    /\ queuedAtClose # {}
    /\ done # {}

\* C3 (as claimed): every call of execute made while the sender is present
\* returns normally with the job appended to the channel.
C3_ExecuteSucceedsWhileSenderPresent ==
    [][(sender /\ attempts' = attempts + 1) =>
         (execResult' = "ok" /\ Len(queue') = Len(queue) + 1)]_vars

\* C4: a call of execute made when the sender is absent ends in a panic and
\* leaves the channel and the executions untouched; a job whose execute call
\* panicked is never in the channel, never held by a worker, never invoked.
C4_RejectedAfterShutdown ==
    /\ [][(~sender /\ attempts' = attempts + 1) =>
            /\ execResult' = "no_sender"
            /\ (attempts + 1) \in rejected'
            /\ queue' = queue
            /\ submitted' = submitted
            /\ runs' = runs]_vars
    /\ [](\A j \in JobIds :
            (j <= attempts /\ j \notin SubmittedIds) =>
               /\ j \in rejected
               /\ runs[j] = 0
               /\ j \notin QueuedIds
               /\ j \notin HeldIds)

C4_Witness ==
    /\ ~sender
    /\ pc = "dropping"
    /\ execResult = "no_sender"
    /\ rejected # {}

\* C5: at the step where ThreadPool::new(N) returns, the pool has exactly N
\* workers with ids 0..N-1 in order, every handle is present, every thread
\* has been started and is in its loop, the N threads hold the N clones of
\* the one Arc, and the sender is present.
C5_NewSpawnsN ==
    [][(pc = "constructing" /\ pc' = "alive") =>
         /\ num_threads' >= 1
         /\ Len(workers') = num_threads'
         /\ \A i \in 1 .. Len(workers') :
              /\ workers'[i].id = i - 1
              /\ workers'[i].handle
              /\ wpc'[workers'[i].id] \in {"lock", "recv"}
         /\ \A w \in Ids : (w >= num_threads') => wpc'[w] = "none"
         /\ arc' = num_threads'
         /\ channel'
         /\ sender']_vars

C5_Witness ==
    /\ pc = "alive"
    /\ num_threads >= 2
    /\ Len(workers) = num_threads
    /\ attempts = 0
    /\ \E w \in Spawned : wpc[w] = "recv"

\* C6: once ThreadPool::new(0) has been called the only outcome is the panic
\* of the assert!: no pool, no channel, no sender, no worker, no thread.
C6_NewZeroPanics ==
    (pc # "unborn" /\ num_threads = 0) =>
      /\ pc = "new_panicked"
      /\ ~channel
      /\ ~sender
      /\ arc = 0
      /\ workers = << >>
      /\ \A w \in Ids : wpc[w] = "none"

C6_Witness ==
    /\ pc = "new_panicked"
    /\ num_threads = 0

\* C7: jobs leave the channel in the order in which they entered it, and in
\* a pool of one worker they are invoked in that order.
C7_Fifo ==
    /\ IsPrefix(dequeued, submitted)
    /\ num_threads = 1 => IsPrefix(started, submitted)

C7_Witness ==
    /\ num_threads = 1
    /\ Len(started) >= 3
    /\ Len(dequeued) >= 3

\* C8: a worker that is executing a job does not keep the others from the
\* channel: while no worker is waiting inside recv, a worker waiting for the
\* lock can take it although another one is executing; and two workers that
\* execute at the same time execute different jobs.
C8_NotSerialized ==
    /\ \A w, v \in Ids :
         (/\ w # v
          /\ wpc[w] = "exec"
          /\ wpc[v] = "lock"
          /\ \A u \in Ids : wpc[u] # "recv") => ENABLED WorkerLock(v)
    /\ \A w, v \in Executing : w # v => message[w].id # message[v].id

\* Two different workers are inside job() at the same time.
C8_Witness ==
    \E w, v \in Executing :
       /\ w # v
       /\ message[w].id # message[v].id
       /\ message[w].tag = "ok"
       /\ message[v].tag = "ok"

C10_LockDiscipline ==
    /\ Cardinality(Holders) <= 1
    /\ mutex <=> (Holders # {})
    /\ \A w \in Ids : guard[w] => wpc[w] = "recv"
    /\ \A w \in Ids : wpc[w] \in {"match", "exec"} => ~guard[w]

C10_Witness ==
    \E w, v \in Ids :
       /\ wpc[w] = "exec"
       /\ guard[v]
       /\ wpc[v] = "recv"

\* C11: a worker thread reaches "stopped" only from the Err arm of its match,
\* recv gives Err only when the sender has been dropped and the channel is
\* empty, and so no worker is stopped (or holds Err) while the sender is
\* present or a job is queued.
C11_StopsOnlyOnClosedEmpty ==
    /\ [][\A w \in Ids :
            /\ (wpc[w] # "stopped" /\ wpc'[w] = "stopped") =>
                 /\ wpc[w] = "match"
                 /\ message[w].tag = "err"
                 /\ ~sender
                 /\ queue = << >>
            /\ (message[w].tag # "err" /\ message'[w].tag = "err") =>
                 /\ wpc[w] = "recv"
                 /\ ~sender
                 /\ queue = << >>]_vars
    /\ [](\A w \in Ids :
            (wpc[w] = "stopped" \/ message[w].tag = "err") =>
               (~sender /\ queue = << >>))

\* One worker has stopped while another is still running a job.
C11_Witness ==
    \E w, v \in Ids :
       /\ wpc[w] = "stopped"
       /\ wpc[v] = "exec"
       /\ queuedAtClose # {}

\* C13: in drop the sender is dropped before any handle is taken or joined,
\* and the workers are joined one at a time in the order of the Vec, which is
\* the order of their ids 0, 1, ..., N-1: the handles taken are exactly those
\* of the workers before the loop position (and of the one being joined), the
\* joins that have returned are exactly those of the workers before it, and
\* the join of a worker starts only after the joins of all earlier ones.
C13_CloseThenJoinInOrder ==
    /\ [](\A i \in 1 .. Len(workers) : workers[i].id = i - 1)
    /\ []((joining \/ joined # {} \/ \E i \in 1 .. Len(workers) :
                                        ~workers[i].handle) =>
            (~sender /\ pc \in {"dropping", "dropped", "drop_panicked"}))
    /\ [](pc \in {"dropping", "dropped", "drop_panicked"} =>
            /\ joinIdx \in 1 .. (Len(workers) + 1)
            /\ joined = {workers[i].id : i \in 1 .. (joinIdx - 1)}
            /\ \A i \in 1 .. Len(workers) :
                 ~workers[i].handle <=>
                    (i < joinIdx \/ (i = joinIdx /\ (joining \/
                                                     pc = "drop_panicked"))))
    /\ [][(~joining /\ joining') =>
            /\ ~sender
            /\ joinIdx' = joinIdx
            /\ \A i \in 1 .. (joinIdx - 1) :
                 workers[i].id \in joined /\ wpc[workers[i].id] = "stopped"]_vars
    /\ [][(joinIdx' # joinIdx /\ pc = "dropping") =>
            (joinIdx' = joinIdx + 1 /\ ~joining')]_vars

\* drop is inside the join of the second worker, the first one joined.
C13_Witness ==
    /\ pc = "dropping"
    /\ joining
    /\ joinIdx = 2
    /\ joined = {0}

Panicked == {w \in Ids : wpc[w] = "panicked"}
Idle == {w \in Ids : wpc[w] \in {"lock", "recv"}}

\* C15: a job that panics ends the thread that runs it, and for good: the
\* thread leaves job() of a faulting job only to "panicked" and never leaves
\* "panicked", so it takes no lock and no job again; the job it ran is not
\* put back in the channel, is held by nobody and is never invoked a second
\* time; and no worker or thread is created after construction, so each
\* fault leaves one thread fewer to take jobs.
C15_FaultKillsWorker ==
    /\ [][\A w \in Ids :
            /\ (wpc[w] = "exec" /\ message[w].faults /\ wpc'[w] # "exec") =>
                 /\ wpc'[w] = "panicked"
                 /\ message[w].id \notin
                       {queue'[i].id : i \in 1 .. Len(queue')}
                 /\ \A v \in Ids : message'[v].id # message[w].id
                 /\ runs'[message[w].id] = 1
                 /\ Cardinality({v \in Ids : wpc'[v] \in
                                    {"lock", "recv", "match", "exec"}})
                      = Cardinality({v \in Ids : wpc[v] \in
                                    {"lock", "recv", "match", "exec"}}) - 1
            /\ (wpc[w] = "panicked") =>
                 (wpc'[w] = "panicked" /\ ~guard'[w]
                    /\ message'[w] = NoMsg)
            /\ (pc # "constructing" /\ wpc[w] = "none") => wpc'[w] = "none"
          ]_vars
    /\ [][pc # "constructing" => Len(workers') = Len(workers)]_vars
    /\ [](\A j \in JobIds : runs[j] >= 1 => j \notin QueuedIds)
    /\ [](\A j \in JobIds : runs[j] <= 1)

\* One of two workers has been killed by a job; the other one is running a
\* job and a further job is in the channel.
C15_Witness ==
    /\ num_threads = 2
    /\ pc = "alive"
    /\ Cardinality(Panicked) = 1
    /\ Cardinality(Executing) = 1
    /\ queue # << >>

\* C16: drop never returns normally once a worker thread has panicked: the
\* join of that worker ends drop in a panic at that worker's turn, all the
\* workers before it having been joined without error.
C16_JoinFaultIsFatal ==
    /\ [](pc = "dropped" => Panicked = {})
    /\ [][(pc = "dropping" /\ joining /\ ~joining'
             /\ wpc[workers[joinIdx].id] = "panicked") =>
            (pc' = "drop_panicked" /\ joinIdx' = joinIdx)]_vars
    /\ [](pc = "drop_panicked" =>
            /\ joinIdx \in 1 .. Len(workers)
            /\ wpc[workers[joinIdx].id] = "panicked"
            /\ \A i \in 1 .. (joinIdx - 1) :
                 wpc[workers[i].id] = "stopped" /\ workers[i].id \in joined)
    /\ [][pc = "drop_panicked" => pc' = "drop_panicked"]_vars

\* drop panicked at the second worker, after joining the first.
C16_Witness ==
    /\ pc = "drop_panicked"
    /\ joinIdx = 2
    /\ joined = {0}
    /\ wpc[1] = "panicked"

\* C17: the sender is present from the construction of the pool until drop
\* begins and absent afterwards; it goes from present to absent only in the
\* first step of drop, it never comes back, and no call of execute, accepted
\* or panicking, changes it.
C17_SenderLifecycle ==
    /\ [](pc \in {"constructing", "alive"} => sender)
    /\ [](pc \in {"dropping", "dropped", "drop_panicked"} => ~sender)
    /\ [][(sender /\ ~sender') => (pc = "alive" /\ pc' = "dropping")]_vars
    /\ [][(~sender /\ sender') => (pc = "unborn" /\ pc' = "constructing")]_vars
    /\ [][(attempts' # attempts) => (sender' = sender)]_vars

\* A job was accepted, and drop has since taken the sender.
C17_Witness ==
    /\ pc = "dropping"
    /\ ~sender
    /\ Len(submitted) >= 2
    /\ execResult = "no_sender"

\* C18: the handle of every worker is present from construction on, is taken
\* only by drop, at that worker's turn and after the sender was dropped, and
\* never comes back; the handle of a worker that has been joined is absent,
\* and no worker is joined twice.
C18_HandleLifecycle ==
    /\ [](pc \in {"constructing", "alive"} =>
            \A i \in 1 .. Len(workers) : workers[i].handle)
    /\ [](\A i \in 1 .. Len(workers) :
            /\ ~workers[i].handle => ~sender
            /\ workers[i].id \in joined => ~workers[i].handle)
    /\ [][\A i \in 1 .. Len(workers) :
            /\ ~workers[i].handle => ~workers'[i].handle
            /\ (workers[i].handle /\ ~workers'[i].handle) =>
                 /\ pc = "dropping"
                 /\ ~sender
                 /\ i = joinIdx
                 /\ ~joining /\ joining'
                 /\ workers[i].id \notin joined]_vars
    /\ [][(joining /\ ~joining') =>
            /\ ~workers[joinIdx].handle
            /\ workers[joinIdx].id \notin joined
            /\ joined' \subseteq joined \cup {workers[joinIdx].id}]_vars

\* The first worker has been joined, the handle of the second is untouched.
C18_Witness ==
    /\ pc = "dropping"
    /\ Len(workers) = 2
    /\ ~workers[1].handle
    /\ workers[1].id \in joined
    /\ workers[2].handle

\* No job that panics is waiting, held or has been run.
NoFault ==
    /\ Panicked = {}
    /\ \A i \in 1 .. Len(queue) : ~queue[i].faults
    /\ \A w \in Ids : ~message[w].faults

\* C12: under fair scheduling and when no job panics, shutdown terminates:
\* once drop has dropped the sender, every worker thread, wherever it is
\* (in recv with the lock, waiting for the lock, or running a job), reaches
\* "stopped", every job left in the channel is run, and drop returns.
C12_ShutdownTerminates ==
    (pc = "dropping" /\ NoFault) ~>
       (/\ pc = "dropped"
        /\ \A w \in Spawned : wpc[w] = "stopped"
        /\ queue = << >>)

\* drop has begun while one worker waits in recv with the lock, the other
\* waits for the lock.
C12_Witness ==
    /\ pc = "dropping"
    /\ NoFault
    /\ \E w, v \in Spawned : wpc[w] = "recv" /\ wpc[v] = "lock"

\* C14: under fair scheduling, whenever a job is at the head of the channel
\* and some worker is idle (waiting for the lock or in recv), that job is
\* eventually taken from the channel and invoked.
C14_QueuedJobIsStarted ==
    \A j \in JobIds :
       (queue # << >> /\ Head(queue).id = j /\ Idle # {}) ~> (runs[j] = 1)

\* A job is queued while one worker is idle and the other one is busy.
C14_Witness ==
    /\ queue # << >>
    /\ Idle # {}
    /\ Executing # {}
    /\ runs[Head(queue).id] = 0

\* C19: a job that panics never leaves the lock held or poisoned: the mutex
\* is never poisoned, a thread that has ended holds no guard, the death of a
\* worker leaves the channel as it is while another thread lives, and with a
\* dead worker in the pool a surviving worker waiting for the free lock can
\* still acquire it, and one inside recv still receives the next queued job.
C19_FaultLeavesLockUsable ==
    /\ [](~poisoned)
    /\ [](\A w \in Ids : Terminated(w) => ~guard[w])
    /\ [](Panicked # {} =>
            \A v \in Ids :
               /\ (wpc[v] = "lock" /\ \A u \in Ids : wpc[u] # "recv") =>
                    ENABLED (WorkerLock(v) /\ wpc'[v] = "recv" /\ guard'[v])
               /\ (wpc[v] = "recv" /\ queue # << >>) =>
                    ENABLED (/\ WorkerRecv(v)
                             /\ message'[v] = OkMsg(Head(queue))
                             /\ queue' = Tail(queue)))
    /\ [][\A w \in Ids :
            (wpc[w] = "exec" /\ wpc'[w] = "panicked") =>
               /\ mutex' = mutex
               /\ guard' = guard
               /\ (\E v \in Ids \ {w} :
                      wpc[v] \in {"lock", "recv", "match", "exec"}) =>
                    queue' = queue]_vars

\* One worker was killed by a job; the survivor holds the lock in recv and
\* the next job is in the channel.
C19_Witness ==
    \E w, v \in Ids :
       /\ wpc[w] = "panicked"
       /\ wpc[v] = "recv"
       /\ guard[v]
       /\ queue # << >>
       /\ done # {}

====
